---- MODULE Spec2Model ----
(***************************************************************************)
(* owl-face-rec: the in-memory embeddings store (src/src/main.rs) and the  *)
(* /register/ and /search/ handlers (src/src/handlers.rs).                 *)
(*                                                                         *)
(* Numbers.  An embedding is a sequence of integers.  A similarity score   *)
(* or a threshold is a real x; it is represented by the exact value of     *)
(* x*|x| as a reduced fraction [num, den] with den > 0.  x |-> x*|x| is    *)
(* strictly increasing, so every comparison of two scores, or of a score   *)
(* and a threshold, is the comparison the code makes on the reals.  The    *)
(* rounding of f32 arithmetic and NaN are not represented.                 *)
(***************************************************************************)
EXTENDS Integers, Sequences, FiniteSets, Bags, TLC

----------------------------------------------------------------------------
(* Bounds of the model *)

\* the most entries the store holds in the store-level specification
MaxStore == 3
\* the number of requests the service receives
MaxRequests == 2
\* the most entries the store holds in the similarity-level specification
MaxCosStore == 2

----------------------------------------------------------------------------
(* Arithmetic helpers *)

Abs(x) == IF x < 0 THEN -x ELSE x

Min(a, b) == IF a < b THEN a ELSE b

RECURSIVE GCD(_, _)
GCD(a, b) == IF b = 0 THEN a ELSE GCD(b, a % b)

\* x*|x|: the order-preserving square
SSq(x) == x * Abs(x)

\* the reduced fraction n/d, d > 0
Frac(n, d) ==
    LET g == GCD(Abs(n), d)
    IN  [num |-> n \div g, den |-> d \div g]

\* the real n/d (d > 0) as a score value
Real(n, d) == Frac(SSq(n), d * d)

Zero == [num |-> 0, den |-> 1]
One == [num |-> 1, den |-> 1]

\* f32 comparisons on score values
GE(s, t) == s.num * t.den >= t.num * s.den
GT(s, t) == s.num * t.den > t.num * s.den

----------------------------------------------------------------------------
(* cosine_similarity, main.rs 29-45 *)

\* what the loop leaves when a[i] or b[i] is out of bounds: the index
\* expression panics and the call returns nothing
IndexOutOfBounds == << >>

\* the value standing for "the call panicked" where a score is expected
Panic == [num |-> 0, den |-> 0]

\* the loop of lines 34-38 from index i (1-based) up to n = min(len a, len b);
\* acc = <<dot_product, norm_a, norm_b>>
RECURSIVE CosLoop(_, _, _, _, _)
CosLoop(a, b, i, n, acc) ==
    IF i > n THEN acc
    ELSE IF i > Len(a) \/ i > Len(b) THEN IndexOutOfBounds
    ELSE CosLoop(a, b, i + 1, n,
                 << acc[1] + a[i] * b[i],
                    acc[2] + a[i] * a[i],
                    acc[3] + b[i] * b[i] >>)

\* mutant: the square roots of line 44 are left out
cosine_similarity_NoSqrt(a, b) ==
    LET acc == CosLoop(a, b, 1, Min(Len(a), Len(b)), <<0, 0, 0>>)
    IN  IF acc[2] = 0 \/ acc[3] = 0
        THEN Zero
        ELSE Frac(SSq(acc[1]), (acc[2] * acc[3]) * (acc[2] * acc[3]))

\* mutant: two vectors of norm zero are taken to be identical
cosine_similarity_ZeroIsIdentical(a, b) ==
    LET acc == CosLoop(a, b, 1, Min(Len(a), Len(b)), <<0, 0, 0>>)
    IN  IF acc[2] = 0 /\ acc[3] = 0 THEN One
        ELSE IF acc[2] = 0 \/ acc[3] = 0 THEN Zero
        ELSE Frac(SSq(acc[1]), acc[2] * acc[3])

\* mutant: the loop runs over the length of a
cosine_similarity_LenOfA(a, b) ==
    LET acc == CosLoop(a, b, 1, Len(a), <<0, 0, 0>>)
    IN  IF acc = IndexOutOfBounds THEN Panic
        ELSE IF acc[2] = 0 \/ acc[3] = 0 THEN Zero
        ELSE Frac(SSq(acc[1]), acc[2] * acc[3])

cosine_similarity(a, b) ==
    LET acc == CosLoop(a, b, 1, Min(Len(a), Len(b)), <<0, 0, 0>>)
        dot_product == acc[1]
        norm_a == acc[2]
        norm_b == acc[3]
    IN  IF acc = IndexOutOfBounds THEN Panic
        ELSE IF norm_a = 0 \/ norm_b = 0
        THEN Zero
        ELSE \* dot / (sqrt(norm_a) * sqrt(norm_b))
             Frac(SSq(dot_product), norm_a * norm_b)

\* The embeddings of the model: a query Q, three embeddings scoring 0.95,
\* 0.80 and 0.60 against it, an all-zero embedding and a shorter embedding
VecQ == <<1, 0, 0, 0, 0>>
VecA == <<19, 5, 3, 2, 1>>
VecB == <<4, 3, 0, 0, 0>>
VecC == <<3, 4, 0, 0, 0>>
VecZero == <<0, 0, 0, 0, 0>>
VecShort == <<2>>
StoreVecs == {VecQ, VecA, VecB, VecC, VecZero, VecShort}

\* The vectors cosine_similarity is called with directly: the empty vector,
\* all-zero vectors of two lengths, vectors of lengths 1, 2 and 3, and two
\* whose leading components are zero
CosVecs ==
    { << >>, <<0>>, <<0, 0, 0>>, <<1>>, <<-2>>, <<1, 0>>, <<0, 1>>, <<3, 4>>,
      <<1, 2, 2>>, <<0, 0, 5>> }

\* cosine_similarity over the embeddings of the model, evaluated once
similarity_table ==
    [a \in StoreVecs \cup CosVecs |->
        [b \in StoreVecs \cup CosVecs |-> cosine_similarity(a, b)]]

----------------------------------------------------------------------------
(* EmbeddingsStore, main.rs 47-100 *)

\* struct EmbeddingEntry
EmbeddingEntry(uuid, origin, embedding) ==
    [uuid |-> uuid, origin |-> origin, embedding |-> embedding]

\* EmbeddingsStore::new
new == << >>

\* mutant: the entry is put at the front
add_Front(entries, uuid, origin, embedding) ==
    << EmbeddingEntry(uuid, origin, embedding) >> \o entries

\* mutant: an entry with the same uuid is replaced, not joined
add_ReplaceSameUuid(entries, uuid, origin, embedding) ==
    IF \E i \in DOMAIN entries : entries[i].uuid = uuid
    THEN [i \in DOMAIN entries |->
              IF entries[i].uuid = uuid
              THEN EmbeddingEntry(uuid, origin, embedding)
              ELSE entries[i]]
    ELSE Append(entries, EmbeddingEntry(uuid, origin, embedding))

\* EmbeddingsStore::add: entries.push(EmbeddingEntry {..})
add(entries, uuid, origin, embedding) ==
    Append(entries, EmbeddingEntry(uuid, origin, embedding))

\* the map and filter closures of find_similar over entries[lo..hi], each
\* surviving (uuid, origin, similarity) kept in the order of the entries
RECURSIVE MapFilter(_, _, _, _, _)
MapFilter(entries, query, threshold, lo, hi) ==
    IF lo > hi THEN << >>
    ELSE LET entry == entries[lo]
             similarity == similarity_table[query][entry.embedding]
             rest == MapFilter(entries, query, threshold, lo + 1, hi)
         IN  IF GE(similarity, threshold)
             THEN << <<entry.uuid, entry.origin, similarity>> >> \o rest
             ELSE rest

\* mutant: the parts are joined in the order the workers finish, the second
\* part first
ParCollect_CompletionOrder(entries, query, threshold, split) ==
    MapFilter(entries, query, threshold, split + 1, Len(entries))
        \o MapFilter(entries, query, threshold, 1, split)

\* par_iter().map().filter().collect(): rayon either leaves the entries to
\* one worker (split = 0) or halves them between two (split = len / 2); each
\* worker produces the survivors of its part, and collect() joins the parts
\* in the order of the entries
ParCollect(entries, query, threshold, split) ==
    MapFilter(entries, query, threshold, 1, split)
        \o MapFilter(entries, query, threshold, split + 1, Len(entries))

\* the comparator of sort_by: b.2.partial_cmp(&a.2).unwrap_or(Equal)
SortCmp(a, b) ==
    IF GT(a[3], b[3]) THEN "Less"
    ELSE IF GT(b[3], a[3]) THEN "Greater"
    ELSE "Equal"

\* x put into the sorted sequence s before the first element it is Less
\* than, so after every element it compares Equal to
RECURSIVE InsertSorted(_, _)
InsertSorted(s, x) ==
    IF s = << >> THEN << x >>
    ELSE IF SortCmp(x, Head(s)) = "Less" THEN << x >> \o s
    ELSE << Head(s) >> \o InsertSorted(Tail(s), x)

\* slice::sort_by, a stable sort
RECURSIVE SortFrom(_, _, _)
SortFrom(s, i, acc) ==
    IF i > Len(s) THEN acc ELSE SortFrom(s, i + 1, InsertSorted(acc, s[i]))

sort_by(s) == SortFrom(s, 1, << >>)

\* mutant: one result too many is kept
truncate_OneMore(s, limit) == SubSeq(s, 1, Min(limit + 1, Len(s)))

\* Vec::truncate
truncate(s, limit) == SubSeq(s, 1, Min(limit, Len(s)))

\* mutant: the survivors are cut to limit before they are sorted
find_similar_TruncateFirst(entries, query, threshold, limit, split) ==
    sort_by(truncate(ParCollect(entries, query, threshold, split), limit))

\* EmbeddingsStore::find_similar
find_similar(entries, query, threshold, limit, split) ==
    truncate(sort_by(ParCollect(entries, query, threshold, split)), limit)

\* EmbeddingsStore::len, is_empty
len(entries) == Len(entries)
is_empty(entries) == Len(entries) = 0

----------------------------------------------------------------------------
(* State *)

VARIABLES
    embeddings_store,   \* the entries of the EmbeddingsStore (AppState.embeddings_store)
    call,               \* store-level specification: the last method call and what it returned
    phase,              \* main: "boot", "serving" or "exited"
    targets,            \* the rows of the targets table, in heap order
    holder,             \* the request holding the Mutex guard, 0 when it is free
    poisoned,           \* the Mutex is poisoned
    req,                \* the state of each request slot
    owner               \* history: for each entry, the request whose add pushed it (0: main)

vars == << embeddings_store, call, phase, targets, holder, poisoned, req, owner >>

service_vars == << phase, targets, holder, poisoned, req, owner >>

----------------------------------------------------------------------------
(* Inputs *)

\* Option<T>: None is << >>, Some(v) is << v >>
None == << >>
Some(v) == << v >>
unwrap_or(o, default) == IF o = None THEN default ELSE o[1]

UUIDs == {"u1", "u2"}
Origins == {"cam"}


\* The (uuid, embedding) pairs offered to add: two uuids for Q, one for the
\* rest
StoreInputs ==
    (UUIDs \X {VecQ}) \cup ({"u1"} \X {VecA, VecB, VecC, VecZero, VecShort})

\* What the embedding model returns for the images of the requests
ModelOutputs == {VecQ, VecB}

\* What the targets table may hold when the process starts (rows written
\* by earlier runs, possibly with another model): nothing, one row, two rows
InitialTables ==
    { << >>,
      << [uuid |-> "u1", origin |-> "cam", embeddings |-> VecQ] >>,
      << [uuid |-> "u1", origin |-> "cam", embeddings |-> VecQ],
         [uuid |-> "u2", origin |-> "cam", embeddings |-> VecShort] >> }

\* The optional threshold and limit of the /search/ payloads
SearchOptions == { <<None, None>>, <<Some(Real(99, 100)), Some(1)>> }

\* handlers.rs 193-194: the defaults of /search/
DefaultThreshold == Real(7, 10)
DefaultLimit == 10

\* The queries offered to find_similar
QueryVecs == {VecQ, VecA, VecZero, VecShort}
Thresholds == {DefaultThreshold, Real(99, 100)}
Limits == {0, 1, 2}

NoCall ==
    [op |-> "new", uuid |-> "", origin |-> "", vec |-> << >>,
     threshold |-> Zero, limit |-> 0, ret |-> << >>]

----------------------------------------------------------------------------
(* Store-level specification: the methods of EmbeddingsStore called in any *)
(* order on one store                                                      *)

StoreAdd ==
    /\ Len(embeddings_store) < MaxStore
    /\ \E in \in StoreInputs, origin \in Origins :
          /\ embeddings_store' = add(embeddings_store, in[1], origin, in[2])
          /\ call' = [NoCall EXCEPT !.op = "add", !.uuid = in[1],
                                    !.origin = origin, !.vec = in[2]]
    /\ UNCHANGED service_vars

StoreFindSimilar ==
    /\ \E query \in QueryVecs, threshold \in Thresholds, limit \in Limits,
          split \in {0, Len(embeddings_store) \div 2} :
          call' = [NoCall EXCEPT
                      !.op = "find_similar", !.vec = query,
                      !.threshold = threshold, !.limit = limit,
                      !.ret = find_similar(embeddings_store, query, threshold,
                                           limit, split)]
    /\ UNCHANGED << embeddings_store, service_vars >>

StoreLen ==
    /\ call' = [NoCall EXCEPT !.op = "len", !.ret = len(embeddings_store)]
    /\ UNCHANGED << embeddings_store, service_vars >>

StoreIsEmpty ==
    /\ call' = [NoCall EXCEPT !.op = "is_empty", !.ret = is_empty(embeddings_store)]
    /\ UNCHANGED << embeddings_store, service_vars >>

NoRequest ==
    [kind |-> "none", pc |-> "idle", target_uuid |-> "", origin |-> "",
     threshold |-> None, limit |-> None, embedding_vec |-> << >>,
     wrote |-> "no", status |-> 0, results |-> << >>]

StoreInit ==
    /\ embeddings_store = new
    /\ call = NoCall
    /\ phase = "boot"
    /\ targets = << >>
    /\ holder = 0
    /\ poisoned = FALSE
    /\ req = [r \in {} |-> NoRequest]
    /\ owner = << >>

StoreNext == StoreAdd \/ StoreFindSimilar \/ StoreLen \/ StoreIsEmpty

SpecStore == StoreInit /\ [][StoreNext]_vars

----------------------------------------------------------------------------
(* Similarity-level specification: cosine_similarity called on any two     *)
(* vectors, and find_similar called on a small store whose embeddings have *)
(* different lengths                                                       *)

\* The (uuid, embedding) pairs offered to add: an empty and an all-zero
\* embedding, and embeddings of lengths 2 and 3
CosStoreInputs ==
    { <<"u1", << >>>>, <<"u1", <<0, 0, 0>>>>, <<"u2", <<3, 4>>>>,
      <<"u2", <<1, 2, 2>>>> }

\* The thresholds of the queries: none, and the default of /search/
CosThresholds == {Zero, DefaultThreshold}

\* cosine_similarity(a, b)
CosineSimilarity ==
    /\ \E a \in CosVecs, b \in CosVecs :
          call' = [op |-> "cosine_similarity", a |-> a, b |-> b,
                   ret |-> cosine_similarity(a, b)]
    /\ UNCHANGED << embeddings_store, service_vars >>

CosStoreAdd ==
    /\ Len(embeddings_store) < MaxCosStore
    /\ \E in \in CosStoreInputs, origin \in Origins :
          /\ embeddings_store' = add(embeddings_store, in[1], origin, in[2])
          /\ call' = [NoCall EXCEPT !.op = "add", !.uuid = in[1],
                                    !.origin = origin, !.vec = in[2]]
    /\ UNCHANGED service_vars

CosStoreFindSimilar ==
    /\ \E query \in CosVecs, threshold \in CosThresholds,
          split \in {0, Len(embeddings_store) \div 2} :
          call' = [NoCall EXCEPT
                      !.op = "find_similar", !.vec = query,
                      !.threshold = threshold, !.limit = DefaultLimit,
                      !.ret = find_similar(embeddings_store, query, threshold,
                                           DefaultLimit, split)]
    /\ UNCHANGED << embeddings_store, service_vars >>

CosNext == CosineSimilarity \/ CosStoreAdd \/ CosStoreFindSimilar

SpecCos == StoreInit /\ [][CosNext]_vars

----------------------------------------------------------------------------
(* main, main.rs 110-233 *)

Requests == 1..MaxRequests

\* SELECT uuid, embeddings, origin FROM targets: the rows in some order
fetch_all(table) ==
    { [i \in 1..Len(table) |-> table[p[i]]] :
        p \in { q \in [1..Len(table) -> 1..Len(table)] :
                  \A i, j \in 1..Len(table) : q[i] = q[j] => i = j } }

\* mutant: the loop stops before the last row
RECURSIVE SeedLoop_StopsEarly(_, _, _)
SeedLoop_StopsEarly(all_embeddings, i, entries) ==
    IF i >= Len(all_embeddings) THEN entries
    ELSE LET record == all_embeddings[i]
         IN  SeedLoop_StopsEarly(all_embeddings, i + 1,
                                 add(entries, record.uuid, record.origin,
                                     record.embeddings))

\* the loop of lines 196-202: one add per row
RECURSIVE SeedLoop(_, _, _)
SeedLoop(all_embeddings, i, entries) ==
    IF i > Len(all_embeddings) THEN entries
    ELSE LET record == all_embeddings[i]
         IN  SeedLoop(all_embeddings, i + 1,
                      add(entries, record.uuid, record.origin, record.embeddings))

\* lines 187-221: the store is built from the rows and the routes are served
MainSeed ==
    /\ phase = "boot"
    /\ \E all_embeddings \in fetch_all(targets) :
          /\ embeddings_store' = SeedLoop(all_embeddings, 1, new)
          /\ owner' = [i \in 1..Len(all_embeddings) |-> 0]
    /\ phase' = "serving"
    /\ UNCHANGED << call, targets, holder, poisoned, req >>

\* a step of main fails (the ? of lines 145-193): the process exits
MainExit ==
    /\ phase = "boot"
    /\ phase' = "exited"
    /\ UNCHANGED << embeddings_store, call, targets, holder, poisoned, req, owner >>

----------------------------------------------------------------------------
(* The handlers, handlers.rs 124-224 *)

\* requests arrive in the order of their slots
Arrives(r) ==
    /\ phase = "serving"
    /\ req[r].pc = "idle"
    /\ IF r = 1 THEN TRUE ELSE req[r - 1].pc # "idle"

\* POST /register/ with its payload (lines 124-130)
RegisterReceive(r) ==
    /\ Arrives(r)
    /\ \E target_uuid \in UUIDs, origin \in Origins :
          req' = [req EXCEPT ![r] =
                     [NoRequest EXCEPT !.kind = "register", !.pc = "embedding",
                                       !.target_uuid = target_uuid,
                                       !.origin = origin]]
    /\ UNCHANGED << embeddings_store, call, phase, targets, holder, poisoned, owner >>

\* POST /search/ with its payload (lines 175-179)
SearchReceive(r) ==
    /\ Arrives(r)
    /\ \E opts \in SearchOptions :
          req' = [req EXCEPT ![r] =
                     [NoRequest EXCEPT !.kind = "search", !.pc = "embedding",
                                       !.threshold = opts[1],
                                       !.limit = opts[2]]]
    /\ UNCHANGED << embeddings_store, call, phase, targets, holder, poisoned, owner >>

\* get_embedding_from_base64 returns Ok(embedding_vec)
GetEmbeddingOk(r) ==
    /\ req[r].pc = "embedding"
    /\ \E embedding_vec \in ModelOutputs :
          req' = [req EXCEPT ![r].embedding_vec = embedding_vec,
                             ![r].pc = IF req[r].kind = "register"
                                       THEN "persist" ELSE "lock"]
    /\ UNCHANGED << embeddings_store, call, phase, targets, holder, poisoned, owner >>

\* mutant: a failed extraction is recorded and the extraction is run again
GetEmbeddingErr_Retries(r) ==
    /\ req[r].pc = "embedding"
    /\ req[r].status = 0
    /\ \E status \in {400, 500} :
          req' = [req EXCEPT ![r].status = status]
    /\ UNCHANGED << embeddings_store, call, phase, targets, holder, poisoned, owner >>

\* get_embedding_from_base64 returns Err(status): the handler returns it
GetEmbeddingErr(r) ==
    /\ req[r].pc = "embedding"
    /\ \E status \in {400, 500} :
          req' = [req EXCEPT ![r].status = status, ![r].pc = "done"]
    /\ UNCHANGED << embeddings_store, call, phase, targets, holder, poisoned, owner >>

\* mutant: the INSERT binds no origin, so the row gets the column default
RegisterPersistOk_DefaultOrigin(r) ==
    /\ req[r].pc = "persist"
    /\ targets' = Append(targets, [uuid |-> req[r].target_uuid,
                                   origin |-> "unknown",
                                   embeddings |-> req[r].embedding_vec])
    /\ req' = [req EXCEPT ![r].wrote = "ok", ![r].pc = "lock"]
    /\ UNCHANGED << embeddings_store, call, phase, holder, poisoned, owner >>

\* register, lines 142-150: the INSERT succeeded
RegisterPersistOk(r) ==
    /\ req[r].pc = "persist"
    /\ targets' = Append(targets, [uuid |-> req[r].target_uuid,
                                   origin |-> req[r].origin,
                                   embeddings |-> req[r].embedding_vec])
    /\ req' = [req EXCEPT ![r].wrote = "ok", ![r].pc = "lock"]
    /\ UNCHANGED << embeddings_store, call, phase, holder, poisoned, owner >>

\* mutant: the entry is pushed to the store before the INSERT is awaited,
\* and stays there when the INSERT fails
RegisterPersistErr_MemoryFirst(r) ==
    /\ req[r].pc = "persist"
    /\ holder = 0
    /\ embeddings_store' = add(embeddings_store, req[r].target_uuid,
                               req[r].origin, req[r].embedding_vec)
    /\ owner' = Append(owner, r)
    /\ req' = [req EXCEPT ![r].wrote = "err", ![r].status = 500, ![r].pc = "done"]
    /\ UNCHANGED << call, phase, targets, holder, poisoned >>

\* register, lines 167-170: the INSERT failed
RegisterPersistErr(r) ==
    /\ req[r].pc = "persist"
    /\ req' = [req EXCEPT ![r].wrote = "err", ![r].status = 500, ![r].pc = "done"]
    /\ UNCHANGED << embeddings_store, call, phase, targets, holder, poisoned, owner >>

\* register, lines 154-155: lock() returns the guard
RegisterLockOk(r) ==
    /\ req[r].kind = "register" /\ req[r].pc = "lock"
    /\ holder = 0 /\ ~poisoned
    /\ holder' = r
    /\ req' = [req EXCEPT ![r].pc = "add"]
    /\ UNCHANGED << embeddings_store, call, phase, targets, poisoned, owner >>

\* mutant: try_lock in place of lock: a guard held by another request is
\* an error too
RegisterLockErr_TryLock(r) ==
    /\ req[r].kind = "register" /\ req[r].pc = "lock"
    /\ holder # 0 \/ poisoned
    /\ req' = [req EXCEPT ![r].status = 500, ![r].pc = "done"]
    /\ UNCHANGED << embeddings_store, call, phase, targets, holder, poisoned, owner >>

\* register, lines 156-159: lock() returns a PoisonError
RegisterLockErr(r) ==
    /\ req[r].kind = "register" /\ req[r].pc = "lock"
    /\ holder = 0 /\ poisoned
    /\ req' = [req EXCEPT ![r].status = 500, ![r].pc = "done"]
    /\ UNCHANGED << embeddings_store, call, phase, targets, holder, poisoned, owner >>

\* mutant: the entry is pushed twice
RegisterAdd_Twice(r) ==
    /\ req[r].pc = "add" /\ holder = r
    /\ embeddings_store' =
          add(add(embeddings_store, req[r].target_uuid, req[r].origin,
                  req[r].embedding_vec),
              req[r].target_uuid, req[r].origin, req[r].embedding_vec)
    /\ owner' = owner \o << r, r >>
    /\ req' = [req EXCEPT ![r].pc = "added"]
    /\ UNCHANGED << call, phase, targets, holder, poisoned >>

\* register, line 161: embeddings_store.add
RegisterAdd(r) ==
    /\ req[r].pc = "add" /\ holder = r
    /\ embeddings_store' = add(embeddings_store, req[r].target_uuid,
                               req[r].origin, req[r].embedding_vec)
    /\ owner' = Append(owner, r)
    /\ req' = [req EXCEPT ![r].pc = "added"]
    /\ UNCHANGED << call, phase, targets, holder, poisoned >>

\* mutant: the guard is kept when the handler returns
RegisterReturn_KeepsGuard(r) ==
    /\ req[r].pc = "added" /\ holder = r
    /\ req' = [req EXCEPT ![r].status = 201, ![r].pc = "done"]
    /\ UNCHANGED << embeddings_store, call, phase, targets, holder, poisoned, owner >>

\* register, lines 165-166: Ok(CREATED) is returned and the guard dropped
RegisterReturn(r) ==
    /\ req[r].pc = "added" /\ holder = r
    /\ holder' = 0
    /\ req' = [req EXCEPT ![r].status = 201, ![r].pc = "done"]
    /\ UNCHANGED << embeddings_store, call, phase, targets, poisoned, owner >>

\* mutant: the search takes the store without waiting for the guard
SearchLockOk_NoWait(r) ==
    /\ req[r].kind = "search" /\ req[r].pc = "lock"
    /\ ~poisoned
    /\ holder' = r
    /\ req' = [req EXCEPT ![r].pc = "scan"]
    /\ UNCHANGED << embeddings_store, call, phase, targets, poisoned, owner >>

\* search, lines 202-203: lock() returns the guard
SearchLockOk(r) ==
    /\ req[r].kind = "search" /\ req[r].pc = "lock"
    /\ holder = 0 /\ ~poisoned
    /\ holder' = r
    /\ req' = [req EXCEPT ![r].pc = "scan"]
    /\ UNCHANGED << embeddings_store, call, phase, targets, poisoned, owner >>

\* search, lines 204-207: lock() returns a PoisonError
SearchLockErr(r) ==
    /\ req[r].kind = "search" /\ req[r].pc = "lock"
    /\ holder = 0 /\ poisoned
    /\ req' = [req EXCEPT ![r].status = 500, ![r].pc = "done"]
    /\ UNCHANGED << embeddings_store, call, phase, targets, holder, poisoned, owner >>

\* mutant: the search scans a copy of the store taken when main built it
SearchScan_SeedSnapshot(r) ==
    /\ req[r].pc = "scan" /\ holder = r
    /\ \E split \in {0, Len(embeddings_store) \div 2} :
          req' = [req EXCEPT
                     ![r].results =
                         find_similar(SelectSeq(embeddings_store,
                                                LAMBDA e : \E i \in DOMAIN owner :
                                                    owner[i] = 0 /\ embeddings_store[i] = e),
                                      req[r].embedding_vec,
                                      unwrap_or(req[r].threshold, DefaultThreshold),
                                      unwrap_or(req[r].limit, DefaultLimit),
                                      0),
                     ![r].pc = "scanned"]
    /\ UNCHANGED << embeddings_store, call, phase, targets, holder, poisoned, owner >>

\* search, lines 193-194 and 210: find_similar under the guard
SearchScan(r) ==
    /\ req[r].pc = "scan" /\ holder = r
    /\ \E split \in {0, Len(embeddings_store) \div 2} :
          req' = [req EXCEPT
                     ![r].results =
                         find_similar(embeddings_store, req[r].embedding_vec,
                                      unwrap_or(req[r].threshold, DefaultThreshold),
                                      unwrap_or(req[r].limit, DefaultLimit),
                                      split),
                     ![r].pc = "scanned"]
    /\ UNCHANGED << embeddings_store, call, phase, targets, holder, poisoned, owner >>

\* search, line 210: a panic under the guard (rayon cannot start its
\* workers): the guard is dropped while unwinding, which poisons the Mutex,
\* and the request gets no response
SearchScanPanic(r) ==
    /\ req[r].pc = "scan" /\ holder = r
    /\ holder' = 0
    /\ poisoned' = TRUE
    /\ req' = [req EXCEPT ![r].pc = "panicked"]
    /\ UNCHANGED << embeddings_store, call, phase, targets, owner >>

\* mutant: the search keeps its query in the store before it returns
SearchReturn_KeepsQuery(r) ==
    /\ req[r].pc = "scanned" /\ holder = r
    /\ holder' = 0
    /\ embeddings_store' = add(embeddings_store, "", "", req[r].embedding_vec)
    /\ owner' = Append(owner, r)
    /\ req' = [req EXCEPT ![r].status = 200, ![r].pc = "done"]
    /\ UNCHANGED << call, phase, targets, poisoned >>

\* search, lines 214-224: the results are returned and the guard dropped
SearchReturn(r) ==
    /\ req[r].pc = "scanned" /\ holder = r
    /\ holder' = 0
    /\ req' = [req EXCEPT ![r].status = 200, ![r].pc = "done"]
    /\ UNCHANGED << embeddings_store, call, phase, targets, poisoned, owner >>

\* #[tokio::main] (main.rs 110): the worker threads of the runtime, one per
\* core of the machine.  The machine of the model has as many cores as the
\* model sends requests, so every request can run at once.
WorkerThreads == MaxRequests

\* The task of request r occupies a worker thread of the runtime: it is
\* between two .await points that suspend it.  get_embedding_from_base64
\* has no .await inside (it calls onnx_session.run on the thread that polls
\* it, handlers.rs 58), and lock() blocks the thread; only the INSERT
\* (handlers.rs 147) suspends the task.
OnExecutor(r) ==
    req[r].pc \in {"embedding", "lock", "add", "added", "scan", "scanned"}

\* GET / and GET /health/ (handlers.rs 119-121): a free worker thread polls
\* the task, which returns 200 and touches nothing
HealthCheck ==
    /\ phase = "serving"
    /\ Cardinality({r \in Requests : OnExecutor(r)}) < WorkerThreads
    /\ UNCHANGED vars

Init ==
    /\ embeddings_store = new
    /\ call = NoCall
    /\ phase = "boot"
    /\ targets \in InitialTables
    /\ holder = 0
    /\ poisoned = FALSE
    /\ req = [r \in Requests |-> NoRequest]
    /\ owner = << >>

Next ==
    \/ MainSeed
    \/ MainExit
    \/ HealthCheck
    \/ \E r \in Requests :
          \/ RegisterReceive(r)
          \/ SearchReceive(r)
          \/ GetEmbeddingOk(r)
          \/ GetEmbeddingErr(r)
          \/ RegisterPersistOk(r)
          \/ RegisterPersistErr(r)
          \/ RegisterLockOk(r)
          \/ RegisterLockErr(r)
          \/ RegisterAdd(r)
          \/ RegisterReturn(r)
          \/ SearchLockOk(r)
          \/ SearchLockErr(r)
          \/ SearchScan(r)
          \/ SearchScanPanic(r)
          \/ SearchReturn(r)

Spec == Init /\ [][Next]_vars

\* The steps a received request takes by itself: the task of the request
\* is polled by the runtime, the model and the database answer, lock()
\* returns once the guard is free
Handler(r) ==
    \/ GetEmbeddingOk(r)
    \/ GetEmbeddingErr(r)
    \/ RegisterPersistOk(r)
    \/ RegisterPersistErr(r)
    \/ RegisterLockOk(r)
    \/ RegisterLockErr(r)
    \/ RegisterAdd(r)
    \/ RegisterReturn(r)
    \/ SearchLockOk(r)
    \/ SearchLockErr(r)
    \/ SearchScan(r)
    \/ SearchReturn(r)

\* The service when every received request is scheduled and its
\* collaborators respond: a request that can take a step takes one
SpecLive == Spec /\ \A r \in Requests : WF_vars(Handler(r))

----------------------------------------------------------------------------
(* Definitions used to state the properties *)

\* the multiset of the elements of a sequence
BagOfSeq(s) ==
    [x \in {s[i] : i \in DOMAIN s} |-> Cardinality({i \in DOMAIN s : s[i] = x})]

\* an entry of the store as a row of the targets table
RowOf(entry) ==
    [uuid |-> entry.uuid, origin |-> entry.origin, embeddings |-> entry.embedding]

\* the entry a register request is to create
EntryOf(r) ==
    [uuid |-> req[r].target_uuid, origin |-> req[r].origin,
     embedding |-> req[r].embedding_vec]

\* the positions of the store that request r pushed
Pushed(r) == {i \in DOMAIN owner : owner[i] = r}

Succeeded(r) ==
    req[r].kind = "register" /\ req[r].pc = "done" /\ req[r].status = 201

\* the score of entry i of the store against query
ScoreAt(query, i) == cosine_similarity(query, embeddings_store[i].embedding)

\* the result that entry i of the store gives for query
ResultAt(query, i) ==
    << embeddings_store[i].uuid, embeddings_store[i].origin, ScoreAt(query, i) >>

\* the entries whose score reaches the threshold
Passing(query, threshold) ==
    {i \in DOMAIN embeddings_store : GE(ScoreAt(query, i), threshold)}

\* the passing entries ranked before entry i: a higher score, or the same
\* score and an earlier insertion
Outranking(query, threshold, i) ==
    {j \in Passing(query, threshold) :
        \/ GT(ScoreAt(query, j), ScoreAt(query, i))
        \/ ScoreAt(query, j) = ScoreAt(query, i) /\ j < i}

----------------------------------------------------------------------------
(* C1 *)

\* C1: a register request whose INSERT failed has pushed no entry to the
\* store and has returned an error (500); and a request pushes an entry or
\* holds the guard to push it only after its INSERT succeeded.
C1_FailedWriteLeavesStore ==
    /\ Len(owner) = Len(embeddings_store)
    /\ \A r \in Requests :
          /\ req[r].wrote = "err" =>
                /\ Pushed(r) = {}
                /\ req[r].pc = "done"
                /\ req[r].status = 500
          /\ (Pushed(r) # {} \/ req[r].pc \in {"add", "added"}) =>
                req[r].wrote = "ok"

\* a request's INSERT failed while another request's entry is in the store
C1_Witness ==
    \E r, r2 \in Requests :
        /\ req[r].wrote = "err" /\ req[r].pc = "done"
        /\ Pushed(r2) # {}

----------------------------------------------------------------------------
(* C2 *)

----------------------------------------------------------------------------
(* C3 *)

\* C3: when a search has scanned the store under the guard, every register
\* request that had returned 201 by then has its entry in the scanned store,
\* and that entry is in the results, at its rank, whenever its score reaches
\* the threshold and fewer than limit passing entries are ranked before it.
C3_ReadAfterWrite ==
    \A s, r \in Requests :
        (req[s].pc = "scanned" /\ Succeeded(r)) =>
            LET query == req[s].embedding_vec
                threshold == unwrap_or(req[s].threshold, DefaultThreshold)
                limit == unwrap_or(req[s].limit, DefaultLimit)
            IN  \E i \in Pushed(r) :
                    /\ embeddings_store[i] = EntryOf(r)
                    /\ LET before == Cardinality(Outranking(query, threshold, i))
                       IN  (i \in Passing(query, threshold) /\ before < limit) =>
                               /\ Len(req[s].results) > before
                               /\ req[s].results[before + 1] = ResultAt(query, i)

\* a search scanned after a register returned 201 and the registered entry
\* is in its results, behind a seeded entry
C3_Witness ==
    \E s, r \in Requests :
        /\ req[s].pc = "scanned" /\ Succeeded(r)
        /\ \E i \in Pushed(r) :
              /\ i > 1
              /\ \E k \in DOMAIN req[s].results :
                    req[s].results[k] = ResultAt(req[s].embedding_vec, i)

----------------------------------------------------------------------------
(* C4 *)

\* C4: no request pushes more than one entry; an entry pushed by a request
\* is that register request's uuid, origin and embedding, pushed after its
\* INSERT succeeded; and a register request that returned 201 pushed
\* exactly one.
C4_ExactlyOncePerRegistration ==
    /\ Len(owner) = Len(embeddings_store)
    /\ \A r \in Requests :
          /\ Cardinality(Pushed(r)) <= 1
          /\ \A i \in Pushed(r) :
                /\ req[r].kind = "register"
                /\ req[r].wrote = "ok"
                /\ embeddings_store[i] = EntryOf(r)
          /\ Succeeded(r) => Cardinality(Pushed(r)) = 1
          /\ req[r].status = 201 => Succeeded(r)

\* two register requests returned 201, each with its one entry
C4_Witness ==
    \E r, r2 \in Requests :
        /\ r # r2
        /\ Succeeded(r) /\ Succeeded(r2)
        /\ Cardinality(Pushed(r)) = 1 /\ Cardinality(Pushed(r2)) = 1

----------------------------------------------------------------------------
(* C5 *)

\* C5: find_similar returns at most limit results, and the score of every
\* result reaches the threshold.
C5_LimitAndThreshold ==
    call.op = "find_similar" =>
        /\ Len(call.ret) <= call.limit
        /\ \A k \in DOMAIN call.ret : GE(call.ret[k][3], call.threshold)

\* a query cut by its limit (more entries pass than are returned) over a
\* store with an entry under the threshold
C5_Witness ==
    /\ call.op = "find_similar"
    /\ call.limit > 0
    /\ Len(call.ret) = call.limit
    /\ Cardinality(Passing(call.vec, call.threshold)) > call.limit
    /\ Passing(call.vec, call.threshold) # DOMAIN embeddings_store

----------------------------------------------------------------------------
(* C6 *)

\* the ways to attribute the results, in order, to distinct entries of the
\* store
Attributions(query, ret) ==
    {pos \in [DOMAIN ret -> DOMAIN embeddings_store] :
        /\ \A k, l \in DOMAIN ret : pos[k] = pos[l] => k = l
        /\ \A k \in DOMAIN ret : ret[k] = ResultAt(query, pos[k])}

\* C6: the results of find_similar are in descending order of score, and
\* they are results of distinct entries such that of two results with the
\* same score the entry inserted earlier comes first, whichever way the
\* scoring was split between workers.
C6_SortedAndStable ==
    call.op = "find_similar" =>
        /\ \A k, l \in DOMAIN call.ret :
              k < l => GE(call.ret[k][3], call.ret[l][3])
        /\ \E pos \in Attributions(call.vec, call.ret) :
              \A k, l \in DOMAIN call.ret :
                  (k < l /\ call.ret[k][3] = call.ret[l][3]) => pos[k] < pos[l]

\* a store of three entries and a query with two results of the same score
\* that differ
C6_Witness ==
    /\ call.op = "find_similar"
    /\ Len(call.ret) = 2
    /\ call.ret[1][3] = call.ret[2][3]
    /\ call.ret[1] # call.ret[2]
    /\ Len(embeddings_store) = 3

----------------------------------------------------------------------------
(* C7 *)

\* C7: find_similar returns min(limit, number of entries whose score reaches
\* the threshold) results; they are results of distinct entries, and no
\* entry left out whose score reaches the threshold has a score greater than
\* that of a returned result.  With entries scoring 0.95, 0.80 and 0.60,
\* threshold 0.7 and limit 2 the results are the first then the second; on an
\* empty store they are empty.
C7_FullScanTopK ==
    call.op = "find_similar" =>
        /\ Len(call.ret) =
              Min(call.limit, Cardinality(Passing(call.vec, call.threshold)))
        /\ \E pos \in Attributions(call.vec, call.ret) :
              \A i \in Passing(call.vec, call.threshold) :
                  (\A k \in DOMAIN call.ret : pos[k] # i) =>
                      \A k \in DOMAIN call.ret :
                          ~GT(ScoreAt(call.vec, i), call.ret[k][3])
        /\ ( /\ Len(embeddings_store) = 3
             /\ embeddings_store[1].embedding = VecA
             /\ embeddings_store[2].embedding = VecB
             /\ embeddings_store[3].embedding = VecC
             /\ call.vec = VecQ
             /\ call.threshold = Real(7, 10)
             /\ call.limit = 2 ) =>
                call.ret = << << embeddings_store[1].uuid,
                                 embeddings_store[1].origin, Real(95, 100) >>,
                              << embeddings_store[2].uuid,
                                 embeddings_store[2].origin, Real(80, 100) >> >>
        /\ embeddings_store = << >> => call.ret = << >>

\* the query of the scenario: entries scoring 0.95, 0.80 and 0.60, in an order
\* that is not the order of the scores, threshold 0.7 and limit 1, so that a
\* passing entry is left out
C7_Witness ==
    /\ call.op = "find_similar"
    /\ Len(embeddings_store) = 3
    /\ embeddings_store[1].embedding = VecC
    /\ embeddings_store[2].embedding = VecB
    /\ embeddings_store[3].embedding = VecA
    /\ call.vec = VecQ
    /\ call.threshold = Real(7, 10)
    /\ call.limit = 1
    /\ call.ret = << << "u1", "cam", Real(95, 100) >> >>

\* the scenario itself is reachable
C7_Scenario ==
    /\ call.op = "find_similar"
    /\ Len(embeddings_store) = 3
    /\ embeddings_store[1].embedding = VecA
    /\ embeddings_store[2].embedding = VecB
    /\ embeddings_store[3].embedding = VecC
    /\ call.vec = VecQ
    /\ call.threshold = Real(7, 10)
    /\ call.limit = 2
    /\ Len(call.ret) = 2

----------------------------------------------------------------------------
(* C8 *)

\* add(id, origin, emb) is followed at once by find_similar(emb, 0.99, 1)
InsertThenQuery ==
    /\ call.op = "add"
    /\ call'.op = "find_similar"
    /\ call'.vec = call.vec
    /\ call'.threshold = Real(99, 100)
    /\ call'.limit = 1

ScoringOne(emb) ==
    {i \in DOMAIN embeddings_store : ScoreAt(emb, i) = One}

----------------------------------------------------------------------------
(* C9 *)

\* C9 as claimed: the embeddings of all the entries of the store have the
\* same length.
C9_SameLength ==
    \A i, j \in DOMAIN embeddings_store :
        Len(embeddings_store[i].embedding) = Len(embeddings_store[j].embedding)

----------------------------------------------------------------------------
(* C10 *)

\* C10: every step leaves the entries the store had, in their order, as a
\* prefix of its entries; add appends exactly one entry, the one it was
\* given; find_similar, len and is_empty leave the store as it is; len
\* returns the number of entries and is_empty whether there is none.
C10_AppendOnly ==
    [][ /\ Len(embeddings_store') >= Len(embeddings_store)
        /\ SubSeq(embeddings_store', 1, Len(embeddings_store)) = embeddings_store
        /\ call'.op = "add" =>
              /\ Len(embeddings_store') = Len(embeddings_store) + 1
              /\ embeddings_store'[Len(embeddings_store')] =
                    [uuid |-> call'.uuid, origin |-> call'.origin,
                     embedding |-> call'.vec]
        /\ call'.op # "add" => embeddings_store' = embeddings_store
        /\ call'.op = "len" => call'.ret = Len(embeddings_store)
        /\ call'.op = "is_empty" => call'.ret = (embeddings_store = << >>)
      ]_vars

\* len returned 3 after three inserts
C10_Witness ==
    /\ call.op = "len"
    /\ call.ret = 3
    /\ Len(embeddings_store) = 3

----------------------------------------------------------------------------
(* C11 *)

\* the entries of the store with uuid u that a request pushed
PushedWith(u) ==
    {i \in DOMAIN embeddings_store :
        i \in DOMAIN owner /\ owner[i] # 0 /\ embeddings_store[i].uuid = u}

\* the register requests for uuid u that have pushed their entry
RegisteredWith(u) ==
    {r \in Requests :
        /\ req[r].kind = "register" /\ req[r].target_uuid = u
        /\ req[r].pc = "added" \/ Succeeded(r)}

\* C11: nothing is deduplicated by uuid.  For every uuid the store holds as
\* many request-pushed entries with it as register requests for it have
\* pushed; and a search that has scanned the store under the guard, with a
\* limit that cuts nothing, returns for every uuid as many results as there
\* are passing entries with it.
C11_NoDeduplication ==
    /\ \A u \in UUIDs :
          Cardinality(PushedWith(u)) = Cardinality(RegisteredWith(u))
    /\ \A s \in Requests :
          req[s].kind = "search" /\ req[s].pc = "scanned" =>
             LET passing == Passing(req[s].embedding_vec,
                                    unwrap_or(req[s].threshold, DefaultThreshold))
             IN  Cardinality(passing) <= unwrap_or(req[s].limit, DefaultLimit) =>
                    \A u \in UUIDs :
                       Cardinality({k \in DOMAIN req[s].results :
                                       req[s].results[k][1] = u})
                          = Cardinality({i \in passing :
                                            embeddings_store[i].uuid = u})

\* a uuid that was in the table at startup is registered again, and a
\* search returns both records with it
C11_Witness ==
    \E r, s \in Requests :
       /\ Succeeded(r)
       /\ \E i \in DOMAIN embeddings_store :
             owner[i] = 0 /\ embeddings_store[i].uuid = req[r].target_uuid
       /\ req[s].kind = "search" /\ req[s].pc = "scanned"
       /\ Len(req[s].results) = 2
       /\ req[s].results[1][1] = req[r].target_uuid
       /\ req[s].results[2][1] = req[r].target_uuid

----------------------------------------------------------------------------
(* C12 *)

\* the entries of a store as rows of the table
RowsOf(entries) == [i \in DOMAIN entries |-> RowOf(entries[i])]

\* C12: the store is seeded once, at startup.  Until main has built the
\* store it is empty and no request has been received; the step that ends
\* startup leaves exactly one entry per row of the table; startup is never
\* entered again; and every other change of the store is the push of the
\* entry of a register request whose INSERT succeeded.
C12_SeededOnce ==
    [][/\ phase = "boot" =>
             /\ embeddings_store = new
             /\ \A r \in Requests : req[r].pc = "idle"
       /\ phase' = "boot" => phase = "boot"
       /\ phase = "boot" /\ phase' = "serving" =>
             /\ Len(embeddings_store') = Len(targets)
             /\ BagOfSeq(RowsOf(embeddings_store')) = BagOfSeq(targets)
       /\ embeddings_store' # embeddings_store =>
             \/ phase = "boot" /\ phase' = "serving"
             \/ /\ phase = "serving"
                /\ \E r \in Requests :
                      /\ req[r].kind = "register" /\ req[r].wrote = "ok"
                      /\ embeddings_store' =
                            Append(embeddings_store, EntryOf(r))]_vars

\* two rows were loaded, in another order than the table lists them, and a
\* register request has pushed a third entry behind them
C12_Witness ==
    /\ phase = "serving"
    /\ Len(embeddings_store) = 3
    /\ owner[1] = 0 /\ owner[2] = 0 /\ owner[3] # 0
    /\ RowOf(embeddings_store[1]) = targets[2]
    /\ RowOf(embeddings_store[2]) = targets[1]
    /\ Succeeded(owner[3])

----------------------------------------------------------------------------
(* C13 *)

\* how far a request has come
StepRank(pc) ==
    CASE pc = "idle" -> 0
      [] pc = "embedding" -> 1
      [] pc = "persist" -> 2
      [] pc = "lock" -> 3
      [] pc \in {"add", "scan"} -> 4
      [] pc \in {"added", "scanned"} -> 5
      [] pc \in {"done", "panicked"} -> 6

\* the request ended when its embedding could not be extracted
ExtractionFailed(r) ==
    /\ req[r].kind # "none" /\ req[r].pc = "done"
    /\ req[r].embedding_vec = << >>

\* C13: errors are terminal and nothing is retried.  A request whose
\* embedding step fails ends in that step with the error status, with no
\* INSERT attempted and the store and the table as they were; a request
\* that has ended changes no more; and every step of a request takes it
\* forward, so no step is executed a second time.
C13_ErrorsAreTerminal ==
    [][\A r \in Requests :
          /\ (req[r].pc = "embedding" /\ req'[r] # req[r]
                /\ req'[r].pc \notin {"persist", "lock"}) =>
                /\ req'[r].pc = "done"
                /\ req'[r].status \in {400, 500}
                /\ req'[r].wrote = "no"
                /\ req'[r].embedding_vec = << >>
                /\ embeddings_store' = embeddings_store
                /\ targets' = targets
          /\ ExtractionFailed(r) =>
                /\ req'[r] = req[r]
                /\ req[r].wrote = "no" /\ Pushed(r) = {} /\ holder # r
                /\ req[r].status \in {400, 500}
          /\ req'[r] # req[r] => StepRank(req'[r].pc) > StepRank(req[r].pc)]_vars

\* a register request and a search request have both ended at the
\* embedding step, one with 400 and one with 500, and nothing was written
C13_Witness ==
    \E r, s \in Requests :
       /\ req[r].kind = "register" /\ ExtractionFailed(r) /\ req[r].status = 400
       /\ req[s].kind = "search" /\ ExtractionFailed(s) /\ req[s].status = 500
       /\ Len(targets) = 2 /\ Len(embeddings_store) = 2

----------------------------------------------------------------------------
(* C14 *)

AllZero(v) == \A i \in DOMAIN v : v[i] = 0

\* C14: cosine_similarity returns 0.0 when either vector is all zeros (the
\* empty vector included), whatever the other vector and the two lengths;
\* and every result of a query with a positive threshold is the result of
\* an entry whose embedding is not all zeros.
C14_ZeroVectorScoresZero ==
    /\ call.op = "cosine_similarity" =>
          (AllZero(call.a) \/ AllZero(call.b) => call.ret = Zero)
    /\ call.op = "find_similar" /\ GT(call.threshold, Zero) =>
          \A k \in DOMAIN call.ret :
             \E i \in DOMAIN embeddings_store :
                /\ ~AllZero(embeddings_store[i].embedding)
                /\ call.ret[k] = ResultAt(call.vec, i)

\* the store holds an empty embedding and one of another length than the
\* query's; the query has a positive threshold and returns the second
\* entry alone
C14_Witness ==
    /\ call.op = "find_similar" /\ GT(call.threshold, Zero)
    /\ Len(embeddings_store) = 2
    /\ embeddings_store[1].embedding = << >>
    /\ Len(embeddings_store[2].embedding) # Len(call.vec)
    /\ Len(call.ret) = 1
    /\ call.ret[1] = ResultAt(call.vec, 2)

----------------------------------------------------------------------------
(* C15 *)

\* request r is inside an operation on the store
InStore(r) == req[r].pc \in {"add", "added", "scan", "scanned"}

\* C15: the operations on the store exclude each other.  A request is
\* inside an operation on the store only while it holds the guard, so at
\* most one request is; and while a search that has scanned still holds
\* the guard, its results are those of the store as it is, so no insert
\* has come between its scan and its release.
C15_MutualExclusion ==
    /\ \A r \in Requests : InStore(r) => holder = r
    /\ Cardinality({r \in Requests : InStore(r)}) <= 1
    /\ \A s \in Requests :
          req[s].pc = "scanned" =>
             \E split \in {0, Len(embeddings_store) \div 2} :
                req[s].results =
                   find_similar(embeddings_store, req[s].embedding_vec,
                                unwrap_or(req[s].threshold, DefaultThreshold),
                                unwrap_or(req[s].limit, DefaultLimit), split)

\* a register request has pushed its entry and still holds the guard while
\* a search request, its embedding ready, waits for the guard
C15_Witness ==
    \E r, s \in Requests :
       /\ req[r].kind = "register" /\ req[r].pc = "added" /\ holder = r
       /\ req[s].kind = "search" /\ req[s].pc = "lock"
       /\ req[s].embedding_vec # << >>

----------------------------------------------------------------------------
(* C16 *)

\* the INSERT of register request r succeeded
DurablyWritten(r) == req[r].kind = "register" /\ req[r].wrote = "ok"

\* C16: after the INSERT of a register request succeeded, the push to the
\* store fails only on a poisoned lock.  A request that ended with its row
\* written and no entry pushed found the lock poisoned and returned 500;
\* and every request whose INSERT succeeded eventually returns 201 with its
\* entry pushed, unless the lock gets poisoned.
C16_InsertFailsOnlyOnPoison ==
    /\ [](\A r \in Requests :
            DurablyWritten(r) /\ req[r].pc = "done" /\ Pushed(r) = {} =>
               poisoned /\ req[r].status = 500)
    /\ \A r \in Requests :
          DurablyWritten(r) ~> ((Succeeded(r) /\ Pushed(r) # {}) \/ poisoned)

\* a register request wrote its row while a search held the guard, waited,
\* and has returned 201 with its entry pushed; the lock is not poisoned
C16_Witness ==
    \E r, s \in Requests :
       /\ DurablyWritten(r) /\ Succeeded(r) /\ Pushed(r) # {}
       /\ req[s].kind = "search" /\ req[s].pc = "done" /\ req[s].status = 200
       /\ ~poisoned

----------------------------------------------------------------------------
(* C17 *)

\* the requests that occupy a worker thread for something else than the
\* extraction of their embedding
BusyOutsideInference ==
    {r \in Requests : OnExecutor(r) /\ req[r].pc # "embedding"}

\* C17: inference does not block the request-handling executor.  Whenever
\* the requests that are not extracting an embedding leave a worker thread
\* free, a health check can be served, however many requests are
\* extracting theirs.
C17_InferenceOffExecutor ==
    phase = "serving" /\ Cardinality(BusyOutsideInference) < WorkerThreads
       => ENABLED HealthCheck

----------------------------------------------------------------------------
(* C18 *)

\* the first n components of v
Prefix(v, n) == SubSeq(v, 1, n)

\* C18: cosine_similarity compares its vectors up to the shorter length
\* only and never fails.  A call returns a score, not a panic, and the
\* score is that of the two vectors cut to the shorter length, so no
\* component at or beyond that length has a part in it; and a query over a
\* store of embeddings of mixed lengths returns a result, with a score, for
\* every entry that passes.
C18_ComparesCommonPrefix ==
    /\ call.op = "cosine_similarity" =>
          LET n == Min(Len(call.a), Len(call.b))
          IN  /\ call.ret # Panic
              /\ call.ret = cosine_similarity(Prefix(call.a, n), Prefix(call.b, n))
    /\ call.op = "find_similar" =>
          /\ \A k \in DOMAIN call.ret : call.ret[k][3] # Panic
          /\ Len(call.ret) = Cardinality(Passing(call.vec, call.threshold))

\* the store holds embeddings of lengths 2 and 3 and a query of a third
\* length returns both entries
C18_Witness ==
    /\ call.op = "find_similar"
    /\ Len(embeddings_store) = 2
    /\ Len(embeddings_store[1].embedding) = 2
    /\ Len(embeddings_store[2].embedding) = 3
    /\ Len(call.vec) = 1
    /\ Len(call.ret) = 2

----------------------------------------------------------------------------
(* C19 *)

\* C19: search is read-only.  Every step of a search request leaves the
\* store and the table as they are, whether the request goes on, returns
\* its results or fails; and once requests
\* are served the store changes only by the push of one entry at its end,
\* made by a register request that holds the guard, and the table only by
\* the row of a register request.
C19_SearchIsReadOnly ==
    [][/\ \A s \in Requests :
             req'[s] # req[s] /\ req'[s].kind = "search" =>
                /\ embeddings_store' = embeddings_store
                /\ targets' = targets
       /\ phase = "serving" /\ embeddings_store' # embeddings_store =>
             \E r \in Requests :
                /\ req[r].kind = "register"
                /\ req[r].pc = "add" /\ req'[r].pc = "added"
                /\ embeddings_store' = Append(embeddings_store, EntryOf(r))
       /\ targets' # targets =>
             \E r \in Requests :
                /\ req[r].kind = "register"
                /\ req[r].pc = "persist" /\ req'[r].pc = "lock"]_vars

\* one search has returned results and another has failed, over a store
\* that is still what main loaded from the table
C19_Witness ==
    \E s, t \in Requests :
       /\ req[s].kind = "search" /\ req[s].pc = "done" /\ req[s].status = 200
       /\ req[s].results # << >>
       /\ req[t].kind = "search" /\ req[t].pc = "done" /\ req[t].status # 200
       /\ Len(embeddings_store) = 2
       /\ RowsOf(embeddings_store) \in fetch_all(targets)

----------------------------------------------------------------------------
(* C20 *)

\* request r has been received and has not ended
InFlight(r) == req[r].pc \notin {"idle", "done", "panicked"}

\* C20: the guard is never held at a suspension point or while a
\* collaborator is awaited.  The holder of the guard is a request inside
\* its operation on the store: a register request whose INSERT has
\* returned Ok, or a search request whose embedding has been returned;
\* never a request that is idle, extracting its embedding, awaiting the
\* INSERT, or ended.  While a request is in flight some request can take a
\* step (no deadlock); and every received request eventually ends.
C20_GuardNotHeldWhileWaiting ==
    /\ [](/\ holder # 0 =>
               /\ InStore(holder)
               /\ req[holder].embedding_vec # << >>
               /\ req[holder].kind = "register" => req[holder].wrote = "ok"
          /\ \A r \in Requests :
                req[r].pc \in {"idle", "embedding", "persist", "lock",
                               "done", "panicked"} => holder # r
          /\ (\E r \in Requests : InFlight(r)) =>
                \E r \in Requests : InFlight(r) /\ ENABLED Handler(r))
    /\ \A r \in Requests : InFlight(r) ~> ~InFlight(r)

\* a register request waits for the guard, its row written, while a search
\* request holds the guard and has scanned the store
C20_Witness ==
    \E r, s \in Requests :
       /\ req[r].kind = "register" /\ req[r].pc = "lock" /\ req[r].wrote = "ok"
       /\ req[s].kind = "search" /\ req[s].pc = "scanned" /\ holder = s
====
